---- MODULE Spec2Model ----
(***************************************************************************)
(* Model of cvproj/scripts/train.py: main(cfg), the adversarial            *)
(* fine-tuning loop, run by every process of an accelerate launch.         *)
(* Each process executes main() on its own; the model interleaves them.    *)
(* Networks, data sets and the tracker are external: the model keeps what  *)
(* main() itself decides (which calls it makes, in which order, under      *)
(* which guard) and draws the values the networks return from small sets.  *)
(***************************************************************************)
EXTENDS Integers, Sequences, FiniteSets, TLC

VARIABLES
    cfg,              \* the TrainConfig record passed to main()
    env,              \* what the run finds: process count, data set sizes
    pc,               \* per process: position in main()
    err,              \* per process: the exception that ended main(), or "none"
    models,           \* per process: the networks constructed so far
    dataset_train,    \* per process: the training data set object
    dataset_val,      \* per process: the validation data set object
    loaders,          \* per process: the data loaders built so far
    epoch,            \* per process: index of the running epoch
    step,             \* per process: index of the running batch of dl_train
    acc_step,         \* per process: accelerator.step, the accumulation counter
    sync_gradients,   \* per process: accelerator.sync_gradients
    global_step,      \* per process: global_step
    iterations,       \* per process: micro-batch iterations entered so far
    loss_l2,          \* per process: local loss_l2
    loss_lpips,       \* per process: local loss_lpips
    loss_clipsim,     \* per process: local loss_clipsim
    loss,             \* per process: the value handed to the first backward()
    calls,            \* per process: calls made so far in the running iteration
    logs,             \* per process: keys of the logs dict being assembled
    val_step,         \* per process: index of the running batch of dl_val
    val_done,         \* per process: len(l_l2), validation batches processed
    io                \* per process: file writes and tracker calls made so far

vars == <<cfg, env, pc, err, models, dataset_train, dataset_val, loaders, epoch,
          step, acc_step, sync_gradients, global_step, iterations, loss_l2,
          loss_lpips, loss_clipsim, loss, calls, logs, val_step, val_done, io>>

----------------------------------------------------------------------------
(* Bounds of the model *)

MaxEpochs == 3
MaxFreq == 3
MaxTrainLen == 2
MaxValLen == 3
MaxSamples == 2
MaxEvalBatch == 2
MaxProcs == 2
MaxClipWeight == 1
MaxExtraBatches == 1

----------------------------------------------------------------------------
(* Program constants and helpers *)

\* Accelerator(gradient_accumulation_steps=20)
GradientAccumulationSteps == 20

\* A local name that no assignment has bound yet
NoValue == 0

SupportedTypes == {"sketchy", "pokemon", "pixel", "paired"}

\* stands for every dataset_type value outside the four branches
OtherType == "other"

AllModels == {"net_pix2pix", "net_disc", "net_lpips", "net_clip"}

UnboundDataset == [type |-> "unbound", split |-> "unbound"]

Procs == 0 .. (env.num_processes - 1)

\* accelerator.is_main_process
IsMainAlways(p) == TRUE
IsMainProcess(p) == p = 0

Min(a, b) == IF a < b THEN a ELSE b

CeilDiv(a, b) == (a + b - 1) \div b

\* len(dataset): the number of samples of the split the data set was built with
DatasetLen(ds) == IF ds.split = "train" THEN env.train_len ELSE env.val_len

\* batches one process draws from the prepared dl_train in one epoch
\* (drop_last is off; accelerate shards the batches evenly over the processes)
NumTrainBatches(p) ==
    CeilDiv(CeilDiv(DatasetLen(dataset_train[p]), cfg.train_batch_size),
            env.num_processes)

\* batches of dl_val, which is not prepared and so not sharded
NumValBatches(p) == CeilDiv(DatasetLen(dataset_val[p]), cfg.eval_batch_size)

\* B of the i-th batch of dl_val: the last batch may be short
ValBatchSize(p, i) ==
    Min(cfg.eval_batch_size, DatasetLen(dataset_val[p]) - i * cfg.eval_batch_size)

\* stand-ins for the values the networks return
LossVals == {1, 2}

\* one file-system or tracker effect: what was done, for which step, which item
Effect(op, n, i, keys) == [op |-> op, n |-> n, i |-> i, keys |-> keys]

\* os.makedirs(<output_dir>/checkpoints), os.makedirs(<output_dir>/eval)
MakeOutputDirs == {Effect("makedirs:checkpoints", 0, 0, {}),
                   Effect("makedirs:eval", 0, 0, {})}

\* <output_dir>/checkpoints/model_<global_step>.pkl
CheckpointFile(gs) == Effect("save_model:checkpoints/model_<n>.pkl", gs, 0, {})

\* os.makedirs(<output_dir>/eval/fid_<global_step>)
FidDir(gs) == Effect("makedirs:eval/fid_<n>", gs, 0, {})

\* <output_dir>/eval/fid_<global_step>/val_<step>.png
ValImageFile(gs, i) == Effect("save:eval/fid_<n>/val_<i>.png", gs, i, {})

\* accelerator.init_trackers(...)
InitTrackers == Effect("init_trackers", 0, 0, {})

\* get_folder_features(<dataset_folder>/val): the reference statistics
RefStats == Effect("get_folder_features:ref", 0, 0, {})

\* accelerator.log(logs, step=global_step)
TrackerLog(gs, keys) == Effect("accelerator.log", gs, 0, keys)

----------------------------------------------------------------------------
(* The runs the model explores: a configuration and what the run finds *)

BaseCfg ==
    [dataset_type |-> "sketchy", epoch_num |-> 1, train_batch_size |-> 1,
     eval_batch_size |-> 1, l_clipsim |-> 0, image_log_freq |-> 2,
     model_log_freq |-> 2, eval_freq |-> 2, num_samples_to_eval |-> 1,
     track_fid_metrci_val |-> FALSE]

BaseEnv == [num_processes |-> 1, train_len |-> 1, val_len |-> 2]

Run(c, e) == [cfg |-> c, env |-> e]

\* every dataset_type, with a negative, a zero and a positive text-similarity weight
RunsData ==
    { Run([BaseCfg EXCEPT !.dataset_type = t, !.l_clipsim = w],
          [BaseEnv EXCEPT !.train_len = n]) :
        t \in SupportedTypes \cup {OtherType}, w \in (0 - 1) .. MaxClipWeight,
        n \in 1 .. MaxTrainLen }

\* the periodic side effects: several epochs, every frequency
RunsFreq ==
    { Run([BaseCfg EXCEPT !.epoch_num = e, !.model_log_freq = m, !.eval_freq = v,
                          !.image_log_freq = g],
          BaseEnv) :
        e \in 1 .. MaxEpochs, m \in 1 .. MaxFreq, v \in 1 .. MaxFreq,
        g \in 1 .. MaxFreq }

\* the validation pass: loader sizes, batch sizes, sample caps
RunsEval ==
    { Run([BaseCfg EXCEPT !.eval_batch_size = b, !.num_samples_to_eval = k,
                          !.track_fid_metrci_val = f],
          [BaseEnv EXCEPT !.val_len = n]) :
        b \in 1 .. MaxEvalBatch, k \in 0 .. MaxSamples, f \in BOOLEAN,
        n \in 0 .. MaxValLen }

\* epochs long enough for a full accumulation group
RunsAccum ==
    { Run([BaseCfg EXCEPT !.epoch_num = e, !.model_log_freq = 1 + x],
          [BaseEnv EXCEPT !.train_len = GradientAccumulationSteps + x]) :
        e \in 1 .. 2, x \in 0 .. MaxExtraBatches }

\* dataset_type="pokemon", epoch_num=1, 10 samples, train_batch_size=5
RunsEndToEnd ==
    { Run([BaseCfg EXCEPT !.dataset_type = "pokemon", !.train_batch_size = 5,
                          !.eval_freq = v],
          [BaseEnv EXCEPT !.train_len = 10]) :
        v \in 1 .. MaxFreq }

\* several processes, one batch each per epoch
RunsMultiProcess ==
    { Run([BaseCfg EXCEPT !.track_fid_metrci_val = TRUE],
          [BaseEnv EXCEPT !.num_processes = n, !.train_len = n]) :
        n \in 2 .. MaxProcs }
    \cup
    { Run([BaseCfg EXCEPT !.track_fid_metrci_val = TRUE, !.epoch_num = 2],
          [BaseEnv EXCEPT !.num_processes = 2, !.train_len = n]) :
        n \in 2 .. 3 }

Runs == RunsData \cup RunsFreq \cup RunsEval \cup RunsAccum \cup RunsEndToEnd
            \cup RunsMultiProcess

Init ==
    /\ \E r \in Runs : cfg = r.cfg /\ env = r.env
    /\ pc = [p \in Procs |-> "start"]
    /\ err = [p \in Procs |-> "none"]
    /\ models = [p \in Procs |-> {}]
    /\ dataset_train = [p \in Procs |-> UnboundDataset]
    /\ dataset_val = [p \in Procs |-> UnboundDataset]
    /\ loaders = [p \in Procs |-> {}]
    /\ epoch = [p \in Procs |-> 0]
    /\ step = [p \in Procs |-> 0]
    /\ acc_step = [p \in Procs |-> 0]
    /\ sync_gradients = [p \in Procs |-> FALSE]
    /\ global_step = [p \in Procs |-> 0]
    /\ iterations = [p \in Procs |-> 0]
    /\ loss_l2 = [p \in Procs |-> NoValue]
    /\ loss_lpips = [p \in Procs |-> NoValue]
    /\ loss_clipsim = [p \in Procs |-> NoValue]
    /\ loss = [p \in Procs |-> NoValue]
    /\ calls = [p \in Procs |-> <<>>]
    /\ logs = [p \in Procs |-> {}]
    /\ val_step = [p \in Procs |-> 0]
    /\ val_done = [p \in Procs |-> 0]
    /\ io = [p \in Procs |-> {}]

----------------------------------------------------------------------------
(* Setup: lines 29-261 *)

trainVars == <<epoch, step, acc_step, sync_gradients, global_step, iterations,
               loss_l2, loss_lpips, loss_clipsim, loss, calls, logs, val_step,
               val_done>>

\* Accelerator(...), verbosity, seed, output directories
StartAccelerator(p) ==
    /\ pc[p] = "start"
    /\ io' = [io EXCEPT ![p] = IF IsMainProcess(p) THEN @ \cup MakeOutputDirs ELSE @]
    /\ pc' = [pc EXCEPT ![p] = "models"]
    /\ UNCHANGED <<cfg, env, err, models, dataset_train, dataset_val, loaders,
                   trainVars>>

\* generator, discriminator, perceptual and text-similarity networks,
\* optimizers and schedules
BuildModels(p) ==
    /\ pc[p] = "models"
    /\ models' = [models EXCEPT ![p] = AllModels]
    /\ pc' = [pc EXCEPT ![p] = "datasets"]
    /\ UNCHANGED <<cfg, env, err, dataset_train, dataset_val, loaders, io, trainVars>>

\* is cfg.dataset_type one of the four branches
NoTypeCheck(t) == TRUE
IsSupportedType(t) == t \in SupportedTypes

\* the data set objects the branch of cfg.dataset_type leaves bound
TrainDatasetOf(t) ==
    IF t \in SupportedTypes THEN [type |-> t, split |-> "train"] ELSE UnboundDataset

ValDatasetOf(t) ==
    CASE t = "sketchy" -> [type |-> t, split |-> "val"]
      [] t = "pokemon" -> [type |-> t, split |-> "train"]
      [] t = "pixel" -> [type |-> t, split |-> "train"]
      [] OTHER -> UnboundDataset

BuildDatasets(p) ==
    /\ pc[p] = "datasets"
    /\ IF IsSupportedType(cfg.dataset_type)
         THEN /\ dataset_train' = [dataset_train EXCEPT ![p] = TrainDatasetOf(cfg.dataset_type)]
              /\ dataset_val' = [dataset_val EXCEPT ![p] = ValDatasetOf(cfg.dataset_type)]
              /\ pc' = [pc EXCEPT ![p] = "loaders"]
              /\ err' = err
         ELSE /\ pc' = [pc EXCEPT ![p] = "error"]
              /\ err' = [err EXCEPT ![p] = "ValueError: Unknown dataset type"]
              /\ UNCHANGED <<dataset_train, dataset_val>>
    /\ UNCHANGED <<cfg, env, models, loaders, io, trainVars>>

\* dl_train, then dl_val: reading dataset_val while it is unbound raises
BuildLoaders(p) ==
    /\ pc[p] = "loaders"
    /\ IF dataset_train[p] = UnboundDataset
         THEN /\ pc' = [pc EXCEPT ![p] = "error"]
              /\ err' = [err EXCEPT ![p] = "UnboundLocalError: dataset_train"]
              /\ loaders' = loaders
         ELSE IF dataset_val[p] = UnboundDataset
         THEN /\ pc' = [pc EXCEPT ![p] = "error"]
              /\ err' = [err EXCEPT ![p] = "UnboundLocalError: dataset_val"]
              /\ loaders' = [loaders EXCEPT ![p] = {"dl_train"}]
         ELSE /\ pc' = [pc EXCEPT ![p] = "prepare"]
              /\ err' = err
              /\ loaders' = [loaders EXCEPT ![p] = {"dl_train", "dl_val"}]
    /\ UNCHANGED <<cfg, env, models, dataset_train, dataset_val, io, trainVars>>

\* accelerator.prepare, trackers, reference statistics, global_step = 0
Prepare(p) ==
    /\ pc[p] = "prepare"
    /\ io' = [io EXCEPT ![p] =
                @ \cup (IF IsMainProcess(p) THEN {InitTrackers} ELSE {})
                  \cup (IF IsMainProcess(p) /\ cfg.track_fid_metrci_val
                          THEN {RefStats} ELSE {})]
    /\ global_step' = [global_step EXCEPT ![p] = 0]
    /\ pc' = [pc EXCEPT ![p] = "epoch"]
    /\ UNCHANGED <<cfg, env, err, models, dataset_train, dataset_val, loaders, epoch,
                   step, acc_step, sync_gradients, iterations, loss_l2, loss_lpips,
                   loss_clipsim, loss, calls, logs, val_step, val_done>>

----------------------------------------------------------------------------
(* The training loop: lines 262-365 *)

setupVars == <<cfg, env, err, models, dataset_train, dataset_val, loaders>>

\* for epoch in range(0, cfg.epoch_num)
EpochHead(p) ==
    /\ pc[p] = "epoch"
    /\ IF epoch[p] < cfg.epoch_num
         THEN /\ step' = [step EXCEPT ![p] = 0]
              /\ pc' = [pc EXCEPT ![p] = "batch"]
         ELSE /\ step' = step
              /\ pc' = [pc EXCEPT ![p] = "done"]
    /\ UNCHANGED <<setupVars, io, epoch, acc_step, sync_gradients, global_step,
                   iterations, loss_l2, loss_lpips, loss_clipsim, loss, calls, logs,
                   val_step, val_done>>

\* accelerator.accumulate(): the last batch of the loader always synchronizes
\* and restarts the count; any other batch synchronizes when the count
\* reaches a multiple of the group size
AccumulateStep(end_of_dataloader, s) == IF end_of_dataloader THEN 0 ELSE s + 1

SyncEveryBatch(end_of_dataloader, s) == TRUE
AccumulateSync(end_of_dataloader, s) ==
    end_of_dataloader \/ (s + 1) % GradientAccumulationSteps = 0

\* for step, batch in enumerate(dl_train): with accelerator.accumulate(...)
BatchHead(p) ==
    /\ pc[p] = "batch"
    /\ IF step[p] < NumTrainBatches(p)
         THEN LET last == step[p] = NumTrainBatches(p) - 1 IN
              /\ acc_step' = [acc_step EXCEPT ![p] = AccumulateStep(last, @)]
              /\ sync_gradients' =
                    [sync_gradients EXCEPT ![p] = AccumulateSync(last, acc_step[p])]
              /\ iterations' = [iterations EXCEPT ![p] = @ + 1]
              /\ calls' = [calls EXCEPT ![p] = <<>>]
              /\ pc' = [pc EXCEPT ![p] = "recon"]
              /\ epoch' = epoch
         ELSE /\ epoch' = [epoch EXCEPT ![p] = @ + 1]
              /\ pc' = [pc EXCEPT ![p] = "epoch"]
              /\ UNCHANGED <<acc_step, sync_gradients, iterations, calls>>
    /\ UNCHANGED <<setupVars, io, step, global_step, loss_l2, loss_lpips,
                   loss_clipsim, loss, logs, val_step, val_done>>

\* if accelerator.sync_gradients: accelerator.clip_grad_norm_(...)
ClipCalls(sync) == IF sync THEN <<"clip_grad_norm_">> ELSE <<>>

\* if cfg.l_clipsim > 0 (the loss term)
ClipSimAlways(w) == w >= 0
ClipSimInLoss(w) == w > 0

\* if cfg.l_clipsim > 0 (the logs)
ClipSimInLogs(w) == w > 0

\* the value handed to accelerator.backward(loss, retain_graph=False)
ReconLossAdded(l2, lp, cs, w) ==
    IF ClipSimInLoss(w) THEN l2 + lp + cs * w ELSE l2 + lp
ReconLoss(l2, lp, cs, w) == IF ClipSimInLoss(w) THEN cs * w ELSE l2 + lp

ReconCalls(sync, w) ==
    <<"net_pix2pix", "mse_loss", "net_lpips">>
        \o (IF ClipSimInLoss(w) THEN <<"clip.tokenize", "net_clip">> ELSE <<>>)
        \o <<"backward:loss">> \o ClipCalls(sync)
        \o <<"optimizer.step", "lr_scheduler.step", "optimizer.zero_grad">>

GenAdvCalls(sync) ==
    <<"net_pix2pix", "net_disc:for_G", "backward:lossG">> \o ClipCalls(sync)
        \o <<"optimizer.step", "lr_scheduler.step", "optimizer.zero_grad">>

DiscRealCalls(sync) ==
    <<"net_disc:for_real", "backward:lossD_real">> \o ClipCalls(sync)
        \o <<"optimizer_disc.step", "lr_scheduler_disc.step",
             "optimizer_disc.zero_grad">>

DiscFakeSteppingSchedule(sync) ==
    <<"net_disc:for_fake", "backward:lossD_fake">> \o ClipCalls(sync)
        \o <<"optimizer_disc.step", "lr_scheduler_disc.step",
             "optimizer_disc.zero_grad">>
DiscFakeCalls(sync) ==
    <<"net_disc:for_fake", "backward:lossD_fake">> \o ClipCalls(sync)
        \o <<"optimizer_disc.step", "optimizer_disc.zero_grad">>

loopVars == <<epoch, step, acc_step, sync_gradients, global_step, iterations>>

\* reconstruction: forward pass, loss_l2, loss_lpips, the text-similarity
\* term when its weight is positive, backward, optimizer and schedule
ReconStep(p) ==
    /\ pc[p] = "recon"
    /\ \E l2 \in LossVals, lp \in LossVals, cs \in LossVals :
          /\ loss_l2' = [loss_l2 EXCEPT ![p] = l2]
          /\ loss_lpips' = [loss_lpips EXCEPT ![p] = lp]
          /\ loss_clipsim' =
                [loss_clipsim EXCEPT ![p] =
                    IF ClipSimInLoss(cfg.l_clipsim) THEN cs ELSE @]
          /\ loss' = [loss EXCEPT ![p] = ReconLoss(l2, lp, cs, cfg.l_clipsim)]
    /\ calls' = [calls EXCEPT ![p] = @ \o ReconCalls(sync_gradients[p], cfg.l_clipsim)]
    /\ pc' = [pc EXCEPT ![p] = "gen"]
    /\ UNCHANGED <<setupVars, io, loopVars, logs, val_step, val_done>>

\* generator loss: a fresh forward pass scored by the discriminator
GenAdvStep(p) ==
    /\ pc[p] = "gen"
    /\ calls' = [calls EXCEPT ![p] = @ \o GenAdvCalls(sync_gradients[p])]
    /\ pc' = [pc EXCEPT ![p] = "dreal"]
    /\ UNCHANGED <<setupVars, io, loopVars, loss_l2, loss_lpips, loss_clipsim, loss,
                   logs, val_step, val_done>>

\* discriminator loss on the real image
DiscRealStep(p) ==
    /\ pc[p] = "dreal"
    /\ calls' = [calls EXCEPT ![p] = @ \o DiscRealCalls(sync_gradients[p])]
    /\ pc' = [pc EXCEPT ![p] = "dfake"]
    /\ UNCHANGED <<setupVars, io, loopVars, loss_l2, loss_lpips, loss_clipsim, loss,
                   logs, val_step, val_done>>

\* discriminator loss on the generated image
DiscFakeStep(p) ==
    /\ pc[p] = "dfake"
    /\ calls' = [calls EXCEPT ![p] = @ \o DiscFakeCalls(sync_gradients[p])]
    /\ pc' = [pc EXCEPT ![p] = "post"]
    /\ UNCHANGED <<setupVars, io, loopVars, loss_l2, loss_lpips, loss_clipsim, loss,
                   logs, val_step, val_done>>

----------------------------------------------------------------------------
(* Periodic side effects and the validation pass: lines 361-504 *)

\* global_step += 1
IncPerBackward(gs) == gs + 4
IncGlobalStep(gs) == gs + 1

\* if global_step % cfg.image_log_freq == 1
ShouldLogImages(gs, freq) == gs % freq = 1

\* if global_step % cfg.model_log_freq == 1
CheckpointOnMultiple(gs, freq) == gs % freq = 0
ShouldCheckpoint(gs, freq) == gs % freq = 1

\* if global_step % cfg.eval_freq == 1
ShouldEval(gs, freq) == gs % freq = 1

\* if step >= cfg.num_samples_to_eval: break
ValBreakLate(i, n) == i > n
ValBreak(i, n) == i >= n

\* assert B == 1, "Use batch size 1 for eval."
AssertNothing(B) == TRUE
AssertBatchOne(B) == B = 1

LossLogKeys == {"lossG", "lossD", "loss_l2", "loss_lpips"}

ImageLogKeys == {"train/source", "train/target", "train/model_output"}

ValLogKeys == {"val/l2", "val/lpips", "val/clipsim"}

\* the keys of logs before the validation block
StepLogKeys(gs) ==
    LossLogKeys
        \cup (IF ClipSimInLogs(cfg.l_clipsim) THEN {"loss_clipsim"} ELSE {})
        \cup (IF ShouldLogImages(gs, cfg.image_log_freq) THEN ImageLogKeys ELSE {})

\* if accelerator.sync_gradients: ... up to the validation loop or the log call
PostStep(p) ==
    /\ pc[p] = "post"
    /\ IF ~sync_gradients[p]
         THEN /\ pc' = [pc EXCEPT ![p] = "batch"]
              /\ step' = [step EXCEPT ![p] = @ + 1]
              /\ UNCHANGED <<global_step, logs, io, val_step, val_done>>
         ELSE LET gs == IncGlobalStep(global_step[p]) IN
              /\ global_step' = [global_step EXCEPT ![p] = gs]
              /\ IF ~IsMainProcess(p)
                   THEN /\ pc' = [pc EXCEPT ![p] = "batch"]
                        /\ step' = [step EXCEPT ![p] = @ + 1]
                        /\ UNCHANGED <<logs, io, val_step, val_done>>
                   ELSE LET saved == IF ShouldCheckpoint(gs, cfg.model_log_freq)
                                       THEN {CheckpointFile(gs)} ELSE {}
                        IN
                        /\ logs' = [logs EXCEPT ![p] = StepLogKeys(gs)]
                        /\ IF ShouldEval(gs, cfg.eval_freq)
                             THEN /\ io' = [io EXCEPT ![p] =
                                            @ \cup saved
                                              \cup (IF cfg.track_fid_metrci_val
                                                      THEN {FidDir(gs)} ELSE {})]
                                  /\ val_step' = [val_step EXCEPT ![p] = 0]
                                  /\ val_done' = [val_done EXCEPT ![p] = 0]
                                  /\ pc' = [pc EXCEPT ![p] = "val"]
                                  /\ step' = step
                             ELSE /\ io' = [io EXCEPT ![p] =
                                            @ \cup saved
                                              \cup {TrackerLog(gs, StepLogKeys(gs))}]
                                  /\ pc' = [pc EXCEPT ![p] = "batch"]
                                  /\ step' = [step EXCEPT ![p] = @ + 1]
                                  /\ UNCHANGED <<val_step, val_done>>
    /\ UNCHANGED <<setupVars, epoch, acc_step, sync_gradients, iterations, loss_l2,
                   loss_lpips, loss_clipsim, loss, calls>>

\* one turn of: for step, batch_val in enumerate(dl_val)
ValBatch(p) ==
    /\ pc[p] = "val"
    /\ IF val_step[p] < NumValBatches(p)
            /\ ~ValBreak(val_step[p], cfg.num_samples_to_eval)
         THEN IF AssertBatchOne(ValBatchSize(p, val_step[p]))
                THEN /\ \E l2 \in LossVals, lp \in LossVals :
                           /\ loss_l2' = [loss_l2 EXCEPT ![p] = l2]
                           /\ loss_lpips' = [loss_lpips EXCEPT ![p] = lp]
                     /\ val_done' = [val_done EXCEPT ![p] = @ + 1]
                     /\ io' = [io EXCEPT ![p] =
                                 @ \cup (IF cfg.track_fid_metrci_val
                                           THEN {ValImageFile(global_step[p], val_step[p])}
                                           ELSE {})]
                     /\ val_step' = [val_step EXCEPT ![p] = @ + 1]
                     /\ UNCHANGED <<pc, err>>
                ELSE /\ pc' = [pc EXCEPT ![p] = "error"]
                     /\ err' = [err EXCEPT ![p] = "AssertionError: Use batch size 1 for eval."]
                     /\ UNCHANGED <<loss_l2, loss_lpips, val_done, io, val_step>>
         ELSE /\ pc' = [pc EXCEPT ![p] = "valend"]
              /\ UNCHANGED <<err, loss_l2, loss_lpips, val_done, io, val_step>>
    /\ UNCHANGED <<cfg, env, models, dataset_train, dataset_val, loaders, loopVars,
                   loss_clipsim, loss, calls, logs>>

\* after the validation loop: the FID score, the val/ aggregates, the log call
ValEnd(p) ==
    /\ pc[p] = "valend"
    /\ LET keys == logs[p] \cup ValLogKeys
                       \cup (IF cfg.track_fid_metrci_val THEN {"val/clean_fid"} ELSE {})
       IN
       /\ logs' = [logs EXCEPT ![p] = keys]
       /\ io' = [io EXCEPT ![p] = @ \cup {TrackerLog(global_step[p], keys)}]
    /\ pc' = [pc EXCEPT ![p] = "batch"]
    /\ step' = [step EXCEPT ![p] = @ + 1]
    /\ UNCHANGED <<setupVars, epoch, acc_step, sync_gradients, global_step, iterations,
                   loss_l2, loss_lpips, loss_clipsim, loss, calls, val_step, val_done>>

----------------------------------------------------------------------------

Next ==
    \/ \E p \in Procs : StartAccelerator(p)
    \/ \E p \in Procs : BuildModels(p)
    \/ \E p \in Procs : BuildDatasets(p)
    \/ \E p \in Procs : BuildLoaders(p)
    \/ \E p \in Procs : Prepare(p)
    \/ \E p \in Procs : EpochHead(p)
    \/ \E p \in Procs : BatchHead(p)
    \/ \E p \in Procs : ReconStep(p)
    \/ \E p \in Procs : GenAdvStep(p)
    \/ \E p \in Procs : DiscRealStep(p)
    \/ \E p \in Procs : DiscFakeStep(p)
    \/ \E p \in Procs : PostStep(p)
    \/ \E p \in Procs : ValBatch(p)
    \/ \E p \in Procs : ValEnd(p)

Spec == Init /\ [][Next]_vars

----------------------------------------------------------------------------
(* Vocabulary of the properties *)

InIteration(p) == pc[p] \in {"recon", "gen", "dreal", "dfake", "post"}

\* micro-batch iterations whose post-step block has run
Completed(p) == iterations[p] - (IF InIteration(p) THEN 1 ELSE 0)

Checkpoints(p) == {e \in io[p] : e.op = "save_model:checkpoints/model_<n>.pkl"}

TrackerLogs(p) == {e \in io[p] : e.op = "accelerator.log"}

AssertionFailed(p) == err[p] = "AssertionError: Use batch size 1 for eval."

UnknownTypeRaised(p) == err[p] = "ValueError: Unknown dataset type"

IsPrefix(s, t) == Len(s) <= Len(t) /\ \A i \in 1 .. Len(s) : s[i] = t[i]

----------------------------------------------------------------------------
(* C1 *)

\* C1: global_step starts at 0 and, in every step of every process, grows by
\* exactly 1 when a micro-batch iteration whose accelerator reported
\* sync_gradients finishes, and by 0 in every other step, whatever the number
\* of backward passes made since the last increment.
C1_GlobalStepPerSyncStep ==
    /\ \A p \in Procs : global_step[p] = 0
    /\ [][\A p \in Procs :
            global_step'[p] = global_step[p]
                + (IF pc[p] = "post" /\ pc'[p] # "post" /\ sync_gradients[p]
                     THEN 1 ELSE 0)]_vars

\* a full accumulation group of 20 micro-batches (80 backward passes) and the
\* last batch of the loader each moved global_step by one
C1_Witness ==
    \E p \in Procs :
        /\ iterations[p] = 21
        /\ Completed(p) = 21
        /\ epoch[p] = 0
        /\ global_step[p] = 2

----------------------------------------------------------------------------
(* C2 *)

\* C2: on every process the checkpoint files written so far are exactly
\* model_<n>.pkl for the values n that global_step took with
\* n % model_log_freq == 1, on the main process, and none on any other
\* process; global_step takes each value once, at a synchronized step.
C2_CheckpointsWritten ==
    \A p \in Procs :
        Checkpoints(p) =
            IF p = 0
              THEN {Effect("save_model:checkpoints/model_<n>.pkl", n, 0, {}) :
                       n \in {k \in 1 .. global_step[p] : k % cfg.model_log_freq = 1}}
              ELSE {}

\* model_log_freq=2 over steps 1,2,3 has written model_1.pkl and model_3.pkl
C2_Witness ==
    /\ cfg.model_log_freq = 2
    /\ global_step[0] = 3
    /\ Cardinality(Checkpoints(0)) = 2
    /\ \E e \in Checkpoints(0) : e.n = 1
    /\ \E e \in Checkpoints(0) : e.n = 3

----------------------------------------------------------------------------
(* C3 *)

InValidation(p) == pc[p] \in {"val", "valend"} \/ AssertionFailed(p)

\* C3 as stated: once a validation pass is over, it has processed
\* min(num_samples_to_eval, batches of the loader) batches.
C3_Original ==
    \A p \in Procs :
        /\ InValidation(p) =>
              /\ sync_gradients[p]
              /\ global_step[p] % cfg.eval_freq = 1
        /\ (pc[p] = "valend" \/ AssertionFailed(p)) =>
              val_done[p] = Min(cfg.num_samples_to_eval, NumValBatches(p))

\* C3, amended: a validation pass runs only at a synchronized step with
\* global_step % eval_freq == 1; it never processes more than
\* min(num_samples_to_eval, batches of the loader) batches, and a pass that
\* the batch-size assertion does not abort processes exactly that many.
C3_ValidationBounded ==
    \A p \in Procs :
        InValidation(p) =>
            /\ sync_gradients[p]
            /\ global_step[p] % cfg.eval_freq = 1
            /\ val_done[p] <= Min(cfg.num_samples_to_eval, NumValBatches(p))
            /\ pc[p] = "valend" =>
                  val_done[p] = Min(cfg.num_samples_to_eval, NumValBatches(p))

\* a pass stopped at the cap although the loader had more batches
C3_Witness ==
    \E p \in Procs :
        /\ pc[p] = "valend"
        /\ cfg.num_samples_to_eval >= 1
        /\ val_done[p] = cfg.num_samples_to_eval
        /\ NumValBatches(p) > cfg.num_samples_to_eval

----------------------------------------------------------------------------
(* C4 *)

NoTrainingHappened(p) ==
    /\ iterations[p] = 0
    /\ global_step[p] = 0
    /\ calls[p] = <<>>
    /\ Checkpoints(p) = {}
    /\ TrackerLogs(p) = {}
    /\ val_done[p] = 0
    /\ pc[p] \notin {"val", "valend"}

\* C4 as stated: the unknown dataset type is reported before any model is
\* constructed, and nothing is trained.
C4_Original ==
    \A p \in Procs :
        UnknownTypeRaised(p) => models[p] = {} /\ NoTrainingHappened(p)

\* C4, amended: with a dataset_type outside paired, pokemon, pixel, sketchy,
\* main() gets no further than the dataset dispatch, where it raises the
\* error naming the unknown type: after the four networks were constructed,
\* before any data loader is built, and without any training iteration,
\* optimizer step, checkpoint or validation pass.
C4_UnknownTypeRaises ==
    \A p \in Procs :
        /\ cfg.dataset_type \notin {"paired", "pokemon", "pixel", "sketchy"} =>
              /\ pc[p] \in {"start", "models", "datasets", "error"}
              /\ pc[p] = "error" =>
                    /\ UnknownTypeRaised(p)
                    /\ models[p] = {"net_pix2pix", "net_disc", "net_lpips", "net_clip"}
              /\ loaders[p] = {}
              /\ NoTrainingHappened(p)
        /\ UnknownTypeRaised(p) =>
              cfg.dataset_type \notin {"paired", "pokemon", "pixel", "sketchy"}

C4_Witness == \E p \in Procs : UnknownTypeRaised(p) /\ pc[p] = "error"

----------------------------------------------------------------------------
(* C5 *)

\* C5 as stated: for each supported dataset_type the training data set is
\* built from the training split and the validation data set from the
\* validation split of that type, both loaders get built and setup goes on
\* to the training loop.
C5_Original ==
    \A p \in Procs :
        cfg.dataset_type \in {"paired", "pokemon", "pixel", "sketchy"} =>
            /\ pc[p] \notin {"start", "models", "datasets"} =>
                  /\ dataset_train[p] = [type |-> cfg.dataset_type, split |-> "train"]
                  /\ dataset_val[p].type = cfg.dataset_type
                  /\ err[p] = "none" \/ AssertionFailed(p)
            /\ pc[p] \notin {"start", "models", "datasets", "loaders"} =>
                  /\ dataset_val[p].split = "val"
                  /\ loaders[p] = {"dl_train", "dl_val"}

----------------------------------------------------------------------------
(* C6 *)

ValMetricsLogged(p) == \E e \in TrackerLogs(p) : "val/l2" \in e.keys

\* the batches of dl_val a pass reaches before the cap or the end of the loader
ValBatchesReached(p) == 0 .. (Min(cfg.num_samples_to_eval, NumValBatches(p)) - 1)

\* C6 as stated: with a validation batch size other than 1 no validation
\* pass gets through: it fails the assertion, whatever num_samples_to_eval
\* and the size of the validation set are, and logs no validation metrics.
C6_Original ==
    \A p \in Procs :
        cfg.eval_batch_size # 1 => pc[p] # "valend" /\ ~ValMetricsLogged(p)

\* C6, amended: a validation pass fails the assertion, ending the run, exactly
\* when it reaches, before the num_samples_to_eval cap and the end of the
\* loader, a batch holding other than 1 sample; nothing is logged for that
\* step. A pass that reaches no such batch (num_samples_to_eval = 0, an
\* empty validation set, or one sample left for the batch) gets through
\* even with eval_batch_size other than 1.
C6_AssertOnReachedBatch ==
    \A p \in Procs :
        /\ AssertionFailed(p) =>
              /\ pc[p] = "error"
              /\ val_step[p] \in ValBatchesReached(p)
              /\ ValBatchSize(p, val_step[p]) # 1
              /\ \A e \in TrackerLogs(p) : e.n # global_step[p]
        /\ pc[p] = "valend" =>
              \A i \in ValBatchesReached(p) : ValBatchSize(p, i) = 1
        /\ pc[p] = "val" =>
              \A i \in 0 .. (val_step[p] - 1) : ValBatchSize(p, i) = 1

C6_Witness ==
    \E p \in Procs :
        /\ AssertionFailed(p)
        /\ cfg.eval_batch_size = 2
        /\ cfg.num_samples_to_eval >= 1

----------------------------------------------------------------------------
(* C7 *)

\* C7: no process other than the main process (index 0) has made an output
\* directory, written a checkpoint or a validation image, or initialised or
\* written to the tracker; and two processes that have completed the same
\* number of micro-batch iterations hold the same global_step.
C7_OnlyMainDoesIO ==
    /\ \A p \in Procs : p # 0 => io[p] = {}
    /\ \A p, q \in Procs : Completed(p) = Completed(q) => global_step[p] = global_step[q]

\* the main process wrote a checkpoint and a validation image while another
\* process went through the same synchronized step
C7_Witness ==
    /\ env.num_processes >= 2
    /\ \E e \in io[0] : e.op = "save:eval/fid_<n>/val_<i>.png"
    /\ Checkpoints(0) # {}
    /\ \E p \in Procs : p # 0 /\ global_step[p] >= 1 /\ Completed(p) >= 1

----------------------------------------------------------------------------
(* C8 *)

EndToEndRun ==
    /\ cfg.dataset_type = "pokemon"
    /\ cfg.epoch_num = 1
    /\ env.train_len = 10
    /\ cfg.train_batch_size = 5
    /\ env.num_processes = 1

----------------------------------------------------------------------------
(* C9 *)

\* C9: with l_clipsim = 0 no training iteration tokenizes captions or calls
\* the text-similarity network, the value handed to the first backward() is
\* loss_l2 + loss_lpips, loss_clipsim is never bound, and no logs dict
\* holds a loss_clipsim entry.
C9_NoClipSimWhenWeightZero ==
    cfg.l_clipsim = 0 =>
        \A p \in Procs :
            /\ \A i \in 1 .. Len(calls[p]) :
                  calls[p][i] \notin {"clip.tokenize", "net_clip"}
            /\ pc[p] \in {"gen", "dreal", "dfake", "post"} =>
                  loss[p] = loss_l2[p] + loss_lpips[p]
            /\ loss_clipsim[p] = NoValue
            /\ "loss_clipsim" \notin logs[p]
            /\ \A e \in TrackerLogs(p) : "loss_clipsim" \notin e.keys

\* a synchronized step was logged and the next reconstruction step has run
C9_Witness ==
    /\ cfg.l_clipsim = 0
    /\ TrackerLogs(0) # {}
    /\ pc[0] = "gen"
    /\ Len(calls[0]) > 0

----------------------------------------------------------------------------
(* C10 *)

IsBackward(c) ==
    c \in {"backward:loss", "backward:lossG", "backward:lossD_real",
           "backward:lossD_fake"}

IsStepCall(c) ==
    c \in {"optimizer.step", "lr_scheduler.step", "optimizer_disc.step",
           "lr_scheduler_disc.step"}

ZeroGradOf(c) ==
    IF c = "optimizer.step" THEN "optimizer.zero_grad" ELSE "optimizer_disc.zero_grad"

\* how many step calls main() has made when it stands at a position
StepCallsAt(position) ==
    CASE position = "recon" -> 0
      [] position = "gen" -> 2
      [] position = "dreal" -> 4
      [] position = "dfake" -> 6
      [] OTHER -> 7

\* C10: in every micro-batch iteration the backward passes come in the order
\* reconstruction, generator-adversarial, discriminator-real,
\* discriminator-fake; the optimizer and schedule steps are, in order,
\* generator optimizer, generator schedule, generator optimizer, generator
\* schedule, discriminator optimizer, discriminator schedule, discriminator
\* optimizer; and every optimizer step is followed by zero_grad of the same
\* optimizer with no backward pass in between.
C10_StepOrder ==
    \A p \in Procs :
        InIteration(p) =>
            LET steps == SelectSeq(calls[p], IsStepCall)
                backs == SelectSeq(calls[p], IsBackward)
                expected == <<"optimizer.step", "lr_scheduler.step",
                              "optimizer.step", "lr_scheduler.step",
                              "optimizer_disc.step", "lr_scheduler_disc.step",
                              "optimizer_disc.step">>
            IN
            /\ IsPrefix(steps, expected)
            /\ Len(steps) = StepCallsAt(pc[p])
            /\ IsPrefix(backs, <<"backward:loss", "backward:lossG",
                                 "backward:lossD_real", "backward:lossD_fake">>)
            /\ pc[p] = "post" => Len(backs) = 4
            /\ \A i \in 1 .. Len(calls[p]) :
                  calls[p][i] \in {"optimizer.step", "optimizer_disc.step"} =>
                      \E j \in (i + 1) .. Len(calls[p]) :
                          /\ calls[p][j] = ZeroGradOf(calls[p][i])
                          /\ \A k \in i .. j : ~IsBackward(calls[p][k])

\* a whole micro-batch iteration has run, on a synchronized step
C10_Witness == \E p \in Procs : pc[p] = "post" /\ sync_gradients[p] /\ Len(calls[p]) > 20

----------------------------------------------------------------------------
(* C11 *)

HasCall(p, c) == \E i \in 1 .. Len(calls[p]) : calls[p][i] = c

\* C11: once the reconstruction step of an iteration has run, the value it
\* handed to backward() is loss_l2 + loss_lpips when l_clipsim <= 0 and is
\* loss_clipsim * l_clipsim, without the other two terms, when l_clipsim > 0;
\* in both cases loss_l2 and loss_lpips were computed in that iteration and
\* every logs dict sent to the tracker holds them.
C11_BackwardLoss ==
    \A p \in Procs :
        /\ pc[p] \in {"gen", "dreal", "dfake", "post"} =>
              /\ cfg.l_clipsim <= 0 => loss[p] = loss_l2[p] + loss_lpips[p]
              /\ cfg.l_clipsim > 0 => loss[p] = loss_clipsim[p] * cfg.l_clipsim
              /\ HasCall(p, "mse_loss") /\ HasCall(p, "net_lpips")
              /\ loss_l2[p] \in LossVals /\ loss_lpips[p] \in LossVals
        /\ \A e \in TrackerLogs(p) :
              /\ {"loss_l2", "loss_lpips"} \subseteq e.keys
              /\ cfg.l_clipsim > 0 => "loss_clipsim" \in e.keys

\* with a positive weight a synchronized iteration backpropagated a value
\* that differs from loss_l2 + loss_lpips
C11_Witness ==
    \E p \in Procs :
        /\ cfg.l_clipsim > 0
        /\ pc[p] = "post"
        /\ sync_gradients[p]
        /\ loss[p] = loss_clipsim[p] * cfg.l_clipsim
        /\ loss[p] # loss_l2[p] + loss_lpips[p]

\* with a negative weight the similarity term is skipped as well
C11_WitnessNegative ==
    \E p \in Procs : cfg.l_clipsim < 0 /\ pc[p] = "post" /\ loss[p] = loss_l2[p] + loss_lpips[p]

====
